---- MODULE Spec2Model ----
(***************************************************************************)
(* Account / OAuth lifecycle and e-mail ingestion of the email harvester.  *)
(*                                                                         *)
(* The model follows the gin API of backend/internal/api/handlers.go and   *)
(* the services it calls: OAuthService.GetAuthURL / HandleCallback /       *)
(* RefreshToken (services/oauth.go, second service), EmailService          *)
(* .FetchEmails (monitoring/monitoring.go, package services) and the       *)
(* MongoStore (store/mongodb.go) with the unique indexes that              *)
(* SchemaMigrator.RunMongoDBSchema creates.                                *)
(*                                                                         *)
(* Every HTTP request runs in a goroutine of its own, so each request is a *)
(* process whose steps are the accesses to shared state (the handshake     *)
(* state map, the two collections) and the calls to the provider; nothing  *)
(* in the code holds a lock across two of them. The handshake state map is *)
(* a plain Go map that the requests read and write without a lock: two     *)
(* accesses that overlap, one of them a write, are a data race, and the    *)
(* runtime may end the process for it.                                     *)
(***************************************************************************)
EXTENDS Integers, Sequences, FiniteSets, TLC

\* ------------------------------------------------------------- bounds
\* Requests handled at the same time.
Procs == {"r1", "r2"}
\* Addresses a caller may submit to AddAccount (any syntactically valid one).
Emails == {"a@gmail.com", "b@hotmail.com", "c@outlook.com", "d@x.io"}
\* Providers AddAccountRequest admits (binding oneof=gmail outlook).
Providers == {"gmail", "outlook"}
\* Provider-native message ids, in the order the provider lists them.
MsgOrder == <<"m1", "m2">>
MsgIds == {MsgOrder[i] : i \in 1..Len(MsgOrder)}
\* Handshake states issued in a run.
MaxStates == 2
\* Tokens the providers issue in a run (code exchanges and refreshes).
MaxTokens == 3
\* Documents inserted in a run (ObjectIDs handed out).
MaxIds == 3
\* Ticks of the clock in a run.
MaxTime == 1
\* Lifetime, in ticks, of an access token the provider issues.
TokenTTL == 1
\* Requests received in a run.
MaxRequests == 4

\* --------------------------------------------------------------- state
VARIABLES
    states,      \* OAuthService.states: state value -> email
    issued,      \* number of state values generated so far (each is fresh)
    accounts,    \* collection "accounts"
    emails,      \* collection "emails"
    nextId,      \* ObjectIDs handed out so far
    nextTok,     \* tokens issued by the providers so far
    mailbox,     \* provider side: message ids listed for a mailbox
    now,         \* the clock
    pc,          \* where each request stands
    loc,         \* the locals of each request
    consumed,    \* history: state values a callback has looked up and deleted
    twice,       \* history: state values that more than one callback got past the lookup with
    refreshLog,  \* history: refresh calls made to a provider
    settled,     \* history: (account, listing) pairs an Ingest has returned nil for
    started,     \* requests received so far
    probe        \* a store call put to both store variants, with their answers

vars == <<states, issued, accounts, emails, nextId, nextTok, mailbox, now,
          pc, loc, consumed, twice, refreshLog, settled, started, probe>>

\* ------------------------------------------------------------- values
NoToken == [access |-> 0, refresh |-> 0, expiry |-> 0]
\* A nil *models.Account.
NoAccount == [id |-> 0, provider |-> "", email |-> "", access |-> 0, refresh |-> 0,
              expiry |-> 0, created_at |-> 0, updated_at |-> 0]

IdleLoc == [op |-> "", st |-> 0, email |-> "", provider |-> "", tok |-> NoToken,
            acct |-> NoAccount, id |-> 0, todo |-> <<>>, res |-> "",
            late |-> FALSE, differs |-> FALSE, wrote |-> FALSE,
            listing |-> {}, pre |-> {}, made |-> {}, prior |-> {}, second |-> FALSE,
            failed |-> FALSE, lazy |-> FALSE, lookupErr |-> FALSE, bad |-> {},
            text |-> "", called |-> FALSE, mail |-> [id |-> 0, account_id |-> 0,
            message_id |-> "", summary |-> "", entities |-> <<>>], ents |-> <<>>]

\* No store call is being compared.
NoProbe == [kind |-> "none"]

\* ------------------------------------------------- the handshake map
AlwaysKnown(m, k) == TRUE

StateKnown(m, k) == k \in DOMAIN m

\* email, ok := s.states[state]: the zero value "" for a missing key.
StateEmail(m, k) == IF k \in DOMAIN m THEN m[k] ELSE ""

KeepState(m, k) == m

DeleteState(m, k) == [s \in (DOMAIN m) \ {k} |-> m[s]]

StoreState(m, k, email) == [s \in (DOMAIN m) \cup {k} |-> IF s = k THEN email ELSE m[s]]

\* ------------------------------------------- provider from the e-mail
\* email[len(email)-n:]; the slice expression panics when n > len(email).
Suffix(email, n) == SubSeq(email, Len(email) - n + 1, Len(email))

DeriveProvider(email) ==
    IF Len(email) < 10 THEN "panic"
    ELSE IF Suffix(email, 10) = "@gmail.com" THEN "gmail"
    ELSE IF Len(email) < 13 THEN "panic"
    ELSE IF Suffix(email, 13) = "@outlook.com" \/ Suffix(email, 12) = "@hotmail.com"
         THEN "outlook"
    ELSE "unsupported"

\* ------------------------------------------------------- MongoStore
\* FindOne({"email": email}); nil, nil when there is no document.
GetAccountByEmail(coll, email) ==
    IF \E a \in coll : a.email = email
    THEN CHOOSE a \in coll : a.email = email
    ELSE NoAccount

\* FindOne({"_id": id}); nil, nil when there is no document.
GetAccount(coll, id) ==
    IF \E a \in coll : a.id = id
    THEN CHOOSE a \in coll : a.id = id
    ELSE NoAccount

NoAccountIndex(coll, doc) == FALSE

\* The unique index on accounts.email: InsertOne answers a duplicate key error.
AccountIndexViolated(coll, doc) == \E a \in coll : a.email = doc.email

\* InsertOne into "accounts", stamped with the present time.
CreateAccount(coll, doc, id, t) ==
    coll \cup {[doc EXCEPT !.id = id, !.created_at = t, !.updated_at = t]}

ReplaceWithTokens(coll, id, tok, t) ==
    {IF a.id = id
     THEN [NoAccount EXCEPT !.id = id, !.access = tok.access, !.refresh = tok.refresh,
                            !.expiry = tok.expiry, !.updated_at = t]
     ELSE a : a \in coll}

\* UpdateOne({"_id": id}, $set tokens and updated_at); no document, no change, no error.
UpdateAccount(coll, id, tok, t) ==
    {IF a.id = id
     THEN [a EXCEPT !.access = tok.access, !.refresh = tok.refresh,
                    !.expiry = tok.expiry, !.updated_at = t]
     ELSE a : a \in coll}

\* DeleteOne({"_id": id}).
DeleteAccount(coll, id) == {a \in coll : a.id # id}

\* FindOne({"account_id", "message_id"}): whether a document matches.
GetEmailByMessageID(coll, accountID, messageID) ==
    \E e \in coll : e.account_id = accountID /\ e.message_id = messageID

NoEmailIndex(coll, doc) == FALSE

\* The keys of the unique index that RunMongoDBSchema creates on "emails".
EmailIndexKeys == <<"accountId", "messageId">>

\* The value a stored e-mail document has at a field path. models.Email is
\* written with the bson names account_id and message_id; a path the document
\* does not have is indexed as null.
EmailField(doc, key) ==
    IF key = "account_id" THEN <<"oid", doc.account_id>>
    ELSE IF key = "message_id" THEN <<"string", doc.message_id>>
    ELSE <<"null", "">>

\* InsertOne is refused (E11000) when a stored document has the same values
\* at every key of the unique index.
EmailIndexViolated(coll, doc) ==
    \E e \in coll :
        \A i \in 1..Len(EmailIndexKeys) :
            EmailField(e, EmailIndexKeys[i]) = EmailField(doc, EmailIndexKeys[i])

\* InsertOne into "emails".
CreateEmail(coll, doc, id) == coll \cup {[doc EXCEPT !.id = id]}

\* DeleteMany({"account_id": id}).
DeleteAccountEmails(coll, accountID) == {e \in coll : e.account_id # accountID}

\* A nil *models.Email.
NoEmail == [id |-> 0, account_id |-> 0, message_id |-> "", summary |-> "", entities |-> <<>>]

\* FindOne({"_id": id}) on "emails": nil, nil when no document matches.
GetEmail(coll, id) ==
    IF \E e \in coll : e.id = id THEN CHOOSE e \in coll : e.id = id ELSE NoEmail

NoUpdate(coll, email) == coll

\* UpdateOne({"_id": email.ID}, {"$set": {"summary": email.Summary,
\* "entities": email.Entities, ...}}): both fields are written from the passed
\* e-mail. The result is discarded, so a call that matches no document
\* succeeds too.
UpdateEmail(coll, email) ==
    {IF e.id = email.id
     THEN [e EXCEPT !.summary = email.summary, !.entities = email.entities]
     ELSE e : e \in coll}

\* ------------------------------------------------------- oauth2 token
\* oauth2.Token.Valid as TokenSource(ctx, token).Token() uses it: the token
\* is reused while it has an access token and has not expired.
Expired(tok) == tok.expiry <= now

TokenValid(tok) == tok.access # 0 /\ ~Expired(tok)

AccountToken(a) == [access |-> a.access, refresh |-> a.refresh, expiry |-> a.expiry]

\* --------------------------------------------------------------- Init
Init ==
    /\ states = [s \in {} |-> ""]
    /\ issued = 0
    /\ accounts = {}
    /\ emails = {}
    /\ nextId = 0
    /\ nextTok = 0
    /\ mailbox = [e \in Emails |-> {}]
    /\ now = 0
    /\ pc = [p \in Procs |-> "idle"]
    /\ loc = [p \in Procs |-> IdleLoc]
    /\ consumed = {}
    /\ twice = {}
    /\ refreshLog = {}
    /\ settled = {}
    /\ started = 0
    /\ probe = NoProbe

\* ------------------------------------------------------------ helpers
\* The request returns res to its caller; what it returns beside res is in acct.
Finish(p, res, l) ==
    /\ pc' = [pc EXCEPT ![p] = "done"]
    /\ loc' = [loc EXCEPT ![p] = [l EXCEPT !.res = res, !.tok = NoToken, !.todo = <<>>,
                                            !.provider = "", !.prior = {}, !.mail = NoEmail,
                                            !.acct = IF res = "ok" THEN l.acct ELSE NoAccount]]

Goto(p, label, l) ==
    /\ pc' = [pc EXCEPT ![p] = label]
    /\ loc' = [loc EXCEPT ![p] = l]

\* ------------------------------------------ the unsynchronised map s.states
\* The requests whose access to s.states can overlap with an access of p, as
\* the number of requests received by then: a request that stands at its
\* delete(s.states, state), or one that arrives at the same time and starts
\* with an access of its own (GetAuthURL writes, HandleCallback reads). n is
\* the number of requests that p's own access brings in.
RaceArrivals(p, n) ==
    {n : q \in {r \in Procs \ {p} : pc[r] = "cb_delete"}}
    \cup {n + 1 : q \in {r \in Procs \ {p} : pc[r] = "idle" /\ started + n + 1 <= MaxRequests}}

\* fatal error: concurrent map writes / concurrent map read and map write.
\* The runtime ends the process: the map is lost with the memory, no request
\* in flight is answered, and nothing restarts the server.
Abort(arrived) ==
    /\ pc' = [q \in Procs |-> "aborted"]
    /\ loc' = [q \in Procs |-> IdleLoc]
    /\ states' = [s \in {} |-> ""]
    /\ started' = started + arrived
    /\ UNCHANGED <<issued, accounts, emails, nextId, nextTok, mailbox, now,
                   consumed, twice, refreshLog, settled, probe>>

\* ------------------------------------------ Handler.AddAccount / GetAuthURL
\* A fresh random state value is generated and recorded with the e-mail; the
\* provider only selects the URL that is returned. A specification that
\* starts with a handshake record keeps, as history, the provider whose URL
\* was returned with each state.
\* The write s.states[stateStr] = email either takes effect, or overlaps with
\* another request's access to the map and the process is ended.
GetAuthURL(p, provider, email) ==
    /\ pc[p] = "idle"
    /\ started < MaxRequests
    /\ issued < MaxStates
    /\ \/ /\ started' = started + 1
          /\ issued' = issued + 1
          /\ states' = StoreState(states, issued + 1, email)
          /\ probe' = IF probe.kind = "handshake"
                      THEN [probe EXCEPT !.asked = StoreState(@, issued + 1, provider)]
                      ELSE probe
          /\ UNCHANGED <<accounts, emails, nextId, nextTok, mailbox, now, pc, loc,
                         consumed, twice, refreshLog, settled>>
       \/ \E arrived \in RaceArrivals(p, 1) : Abort(arrived)

\* ---------------------------------- Handler.OAuthCallback / HandleCallback
\* email, ok := s.states[state]; if !ok { return "invalid state" }
\* st is a state value issued earlier, or 0 for one that never was.
\* The read either returns, or overlaps with another request's write to the
\* map and the process is ended.
CbLookup(p, st) ==
    /\ pc[p] = "idle"
    /\ started < MaxRequests
    /\ st \in 0..issued
    /\ \/ /\ started' = started + 1
          /\ LET l == [loc[p] EXCEPT !.op = "callback", !.st = st, !.late = (st \in consumed)]
             IN IF StateKnown(states, st)
                THEN Goto(p, "cb_delete", [l EXCEPT !.email = StateEmail(states, st)])
                ELSE Finish(p, "invalid state", l)
          /\ UNCHANGED <<states, issued, accounts, emails, nextId, nextTok, mailbox,
                         now, consumed, twice, refreshLog, settled, probe>>
       \/ \E arrived \in RaceArrivals(p, 1) : Abort(arrived)

\* delete(s.states, state), then the provider is taken from the e-mail's domain.
\* The delete either takes effect, or overlaps with another request's access
\* to the map and the process is ended.
CbDelete(p) ==
    /\ pc[p] = "cb_delete"
    /\ \/ /\ states' = DeleteState(states, loc[p].st)
          /\ consumed' = consumed \cup {loc[p].st}
          /\ twice' = IF loc[p].st \in consumed THEN twice \cup {loc[p].st} ELSE twice
          /\ LET prov == DeriveProvider(loc[p].email)
             IN CASE prov = "panic" -> Finish(p, "panic", loc[p])
                  [] prov = "unsupported" -> Finish(p, "unsupported email domain", loc[p])
                  [] OTHER -> Goto(p, "cb_exchange", [loc[p] EXCEPT !.provider = prov])
          /\ UNCHANGED <<issued, accounts, emails, nextId, nextTok, mailbox, now,
                         refreshLog, settled, started, probe>>
       \/ \E arrived \in RaceArrivals(p, 0) : Abort(arrived)

\* token, err := oauthConfig.Exchange(ctx, code): the provider rejects the code,
\* or issues an access token, with a refresh token or without one.
CbExchange(p) ==
    /\ pc[p] = "cb_exchange"
    /\ \/ /\ Finish(p, "failed to exchange code", loc[p])
          /\ UNCHANGED nextTok
       \/ /\ nextTok < MaxTokens
          /\ nextTok' = nextTok + 1
          /\ \E withRefresh \in BOOLEAN :
                Goto(p, "cb_userinfo",
                     [loc[p] EXCEPT !.tok = [access |-> nextTok + 1,
                                             refresh |-> IF withRefresh THEN nextTok + 1 ELSE 0,
                                             expiry |-> now + TokenTTL]])
    /\ UNCHANGED <<states, issued, accounts, emails, nextId, mailbox, now,
                   consumed, twice, refreshLog, settled, started, probe>>

AlwaysMatches(userEmail, email) == TRUE

\* if userEmail != email { return "email mismatch" }
EmailMatches(userEmail, email) == userEmail = email

\* userEmail, err := s.getUserEmail(ctx, provider, token), then the identity check.
\* The provider answers with the address of whoever signed in ("" when the
\* profile carries none), or the call fails.
CbUserInfo(p) ==
    /\ pc[p] = "cb_userinfo"
    /\ \/ Finish(p, "failed to get user email", loc[p])
       \/ \E userEmail \in Emails \cup {""} :
             LET l == [loc[p] EXCEPT !.differs = (userEmail # loc[p].email)]
             IN IF EmailMatches(userEmail, loc[p].email)
                THEN Goto(p, "cb_get", l)
                ELSE Finish(p, "email mismatch", l)
    /\ UNCHANGED <<states, issued, accounts, emails, nextId, nextTok, mailbox,
                   now, consumed, twice, refreshLog, settled, started, probe>>

\* account, err := s.store.GetAccountByEmail(ctx, email)
CbGet(p) ==
    /\ pc[p] = "cb_get"
    /\ \/ Finish(p, "failed to get account", loc[p])
       \/ Goto(p, "cb_write",
               [loc[p] EXCEPT !.acct = GetAccountByEmail(accounts, loc[p].email)])
    /\ UNCHANGED <<states, issued, accounts, emails, nextId, nextTok, mailbox,
                   now, consumed, twice, refreshLog, settled, started, probe>>

\* The document HandleCallback builds for a new account.
NewAccount(provider, email, tok) ==
    [NoAccount EXCEPT !.provider = provider, !.email = email, !.access = tok.access,
                      !.refresh = tok.refresh, !.expiry = tok.expiry]

\* The account HandleCallback returns after updating an existing one.
Reauthed(a, tok, t) ==
    [a EXCEPT !.access = tok.access, !.refresh = tok.refresh, !.expiry = tok.expiry,
              !.updated_at = t]

\* if account == nil { CreateAccount } else { UpdateAccount }; return account
CbWrite(p) ==
    /\ pc[p] = "cb_write"
    /\ IF loc[p].acct = NoAccount
       THEN LET doc == NewAccount(loc[p].provider, loc[p].email, loc[p].tok)
            IN \/ /\ Finish(p, "failed to create account", loc[p])
                  /\ UNCHANGED <<accounts, nextId>>
               \/ /\ AccountIndexViolated(accounts, doc)
                  /\ Finish(p, "failed to create account: duplicate key", loc[p])
                  /\ UNCHANGED <<accounts, nextId>>
               \/ /\ ~AccountIndexViolated(accounts, doc)
                  /\ nextId < MaxIds
                  /\ nextId' = nextId + 1
                  /\ accounts' = CreateAccount(accounts, doc, nextId + 1, now)
                  /\ Finish(p, "ok",
                            [loc[p] EXCEPT !.wrote = TRUE,
                                           !.acct = [doc EXCEPT !.id = nextId + 1,
                                                                !.created_at = now,
                                                                !.updated_at = now]])
       ELSE \/ /\ Finish(p, "failed to update account", loc[p])
               /\ UNCHANGED <<accounts, nextId>>
            \/ /\ accounts' = UpdateAccount(accounts, loc[p].acct.id, loc[p].tok, now)
               /\ Finish(p, "ok", [loc[p] EXCEPT !.wrote = TRUE,
                                                  !.acct = Reauthed(loc[p].acct, loc[p].tok, now)])
               /\ UNCHANGED nextId
    /\ UNCHANGED <<states, issued, emails, nextTok, mailbox, now, consumed, twice,
                   refreshLog, settled, started, probe>>

\* The handler writes the response; the goroutine ends.
Return(p) ==
    /\ pc[p] = "done"
    /\ pc' = [pc EXCEPT ![p] = "idle"]
    /\ loc' = [loc EXCEPT ![p] = IdleLoc]
    /\ UNCHANGED <<states, issued, accounts, emails, nextId, nextTok, mailbox,
                   now, consumed, twice, refreshLog, settled, started, probe>>

\* ------------------------------- Handler.FetchEmails / EmailService.FetchEmails
\* account, err := s.store.GetAccount(ctx, objID); the token is then built from
\* account's fields, which dereferences a nil account.
\* id is the id of a stored account, or 0 for a well-formed id of none.
FeGet(p, id) ==
    /\ pc[p] = "idle"
    /\ started < MaxRequests
    /\ started' = started + 1
    /\ id \in {a.id : a \in accounts} \cup {0}
    /\ LET l == [loc[p] EXCEPT !.op = "fetch", !.id = id,
                               !.prior = {s.listing : s \in {t \in settled : t.id = id}}]
           a == GetAccount(accounts, id)
       IN \/ Finish(p, "failed to get account", l)
          \/ IF a = NoAccount
             THEN Finish(p, "panic", l)
             ELSE Goto(p, "fe_refresh", [l EXCEPT !.acct = a, !.tok = AccountToken(a)])
    /\ UNCHANGED <<states, issued, accounts, emails, nextId, nextTok, mailbox,
                   now, consumed, twice, refreshLog, settled, probe>>

\* Whether the answer of the token endpoint to a refresh carries a new
\* refresh token. RefreshToken(ctx, account) has no provider test after it
\* picked the configuration: whatever the answer carries is taken, for a
\* gmail account as for an outlook one.
MayRotate(provider) == BOOLEAN

\* The token of a refresh answer with access token n: the oauth2 token
\* source keeps the refresh token it presented when the answer carries none.
RefreshedToken(tok, n, rotate, t) ==
    [access |-> n, refresh |-> IF rotate THEN n ELSE tok.refresh, expiry |-> t + TokenTTL]

IgnoreRefreshError(p, l) == Goto(p, "fe_update", [l EXCEPT !.tok = NoToken])

\* if err != nil { return fmt.Errorf("failed to refresh token: %v", err) }
AfterRefreshError(p, l) == Finish(p, "failed to refresh token", l)

\* token, err = s.oauthService.RefreshToken(...): TokenSource(ctx, token).Token()
\* returns the token while it is valid; otherwise it asks the provider for a new
\* one with the refresh token, and fails when there is none.
FeRefresh(p) ==
    /\ pc[p] = "fe_refresh"
    /\ \/ /\ TokenValid(loc[p].tok)
          /\ Goto(p, "fe_update", [loc[p] EXCEPT !.lazy = TRUE])
          /\ UNCHANGED <<nextTok, refreshLog>>
       \/ /\ ~TokenValid(loc[p].tok)
          /\ AfterRefreshError(p, [loc[p] EXCEPT !.failed = TRUE])
          /\ UNCHANGED <<nextTok, refreshLog>>
       \/ /\ ~TokenValid(loc[p].tok)
          /\ loc[p].tok.refresh # 0
          /\ nextTok < MaxTokens
          /\ nextTok' = nextTok + 1
          /\ refreshLog' = refreshLog \cup {[acct |-> loc[p].acct.id,
                                             old |-> loc[p].tok.access,
                                             new |-> nextTok + 1]}
          /\ \E rotate \in MayRotate(loc[p].acct.provider) :
                Goto(p, "fe_update",
                     [loc[p] EXCEPT !.tok = RefreshedToken(loc[p].tok, nextTok + 1, rotate, now)])
    /\ UNCHANGED <<states, issued, accounts, emails, nextId, mailbox, now,
                   consumed, twice, settled, started, probe>>

\* RefreshToken: s.store.UpdateAccount(ctx, account) with the token's fields;
\* its error comes back through FetchEmails as a refresh error.
FeUpdate(p) ==
    /\ pc[p] = "fe_update"
    /\ \/ /\ Finish(p, "failed to refresh token: failed to update account", loc[p])
          /\ UNCHANGED accounts
       \/ /\ accounts' = UpdateAccount(accounts, loc[p].acct.id, loc[p].tok, now)
          /\ Goto(p, "fe_tokens", [loc[p] EXCEPT !.wrote = TRUE])
    /\ UNCHANGED <<states, issued, emails, nextId, nextTok, mailbox, now,
                   consumed, twice, refreshLog, settled, started, probe>>

\* UpdateAccountTokens(id, access, refresh, expiry): the three token fields of
\* the account with that id are set.
UpdateAccountTokens(coll, id, tok) ==
    {IF a.id = id
     THEN [a EXCEPT !.access = tok.access, !.refresh = tok.refresh, !.expiry = tok.expiry]
     ELSE a : a \in coll}

\* FetchEmails: s.store.UpdateAccountTokens(ctx, account.ID, token...), the
\* second write of the tokens in a pass.
FeTokens(p) ==
    /\ pc[p] = "fe_tokens"
    /\ \/ /\ Finish(p, "failed to update account tokens", loc[p])
          /\ UNCHANGED accounts
       \/ /\ accounts' = UpdateAccountTokens(accounts, loc[p].acct.id, loc[p].tok)
          /\ Goto(p, "fe_list", loc[p])
    /\ UNCHANGED <<states, issued, emails, nextId, nextTok, mailbox, now,
                   consumed, twice, refreshLog, settled, started, probe>>

\* What the provider lists for the mailbox, in its order.
Listing(email) == SelectSeq(MsgOrder, LAMBDA m : m \in mailbox[email])

Range(seq) == {seq[i] : i \in 1..Len(seq)}

StoredIds(coll, accountID) == {e.message_id : e \in {d \in coll : d.account_id = accountID}}

\* The loop goes on to the next listed message; after the last one
\* fetchGmailEmails / fetchOutlookEmails return nil.
Advance(p, l) ==
    IF Len(l.todo) > 1
    THEN /\ Goto(p, "fe_check", [l EXCEPT !.todo = Tail(l.todo)])
         /\ UNCHANGED settled
    ELSE /\ Finish(p, "ok", [l EXCEPT !.todo = <<>>])
         /\ settled' = settled \cup {[id |-> l.acct.id, listing |-> l.listing]}

\* The errors the listing call of a provider can end the pass with:
\* Users.Messages.List fails (gmail); client.Get fails or the body does not
\* decode (outlook).
ListErrors(provider) ==
    IF provider = "gmail" THEN {"failed to list messages"}
    ELSE {"failed to get messages", "failed to decode response"}

\* The listings the call can yield. fetchOutlookEmails does not look at the
\* status of the response: an error answer with a JSON body decodes to an
\* empty Value, a listing of nothing.
ListAnswers(provider, email) ==
    IF provider = "gmail" THEN {Listing(email)} ELSE {Listing(email), <<>>}

\* messages, err := gmailService.Users.Messages.List("me")... / client.Get(graph .../me/messages)
FeList(p) ==
    /\ pc[p] = "fe_list"
    /\ \/ /\ \E err \in ListErrors(loc[p].acct.provider) : Finish(p, err, loc[p])
          /\ UNCHANGED settled
       \/ \E seq \in ListAnswers(loc[p].acct.provider, loc[p].acct.email) :
          LET l == [loc[p] EXCEPT !.todo = seq,
                                  !.listing = Range(seq),
                                  !.pre = StoredIds(emails, loc[p].acct.id),
                                  !.second =
                                      /\ Range(seq) \in loc[p].prior
                                      /\ [id |-> loc[p].acct.id, listing |-> Range(seq)]
                                             \in settled]
          IN IF seq = <<>>
             THEN /\ Finish(p, "ok", l)
                  /\ settled' = settled \cup {[id |-> l.acct.id, listing |-> {}]}
             ELSE /\ Goto(p, "fe_check", l)
                  /\ UNCHANGED settled
    /\ UNCHANGED <<states, issued, accounts, emails, nextId, nextTok, mailbox,
                   now, consumed, twice, refreshLog, started, probe>>

\* if _, err := s.store.GetEmailByMessageID(...); err == nil { continue }
\* found is whether a document matched, err whether the lookup failed.
SkipMessage(found, err) == ~err

\* The dedup lookup of the next listed message. A message that is not skipped
\* is fetched in full from Gmail; fetchOutlookEmails has the message in the
\* listing and goes on to store it.
FeCheck(p) ==
    /\ pc[p] = "fe_check"
    /\ LET m == Head(loc[p].todo)
           found == GetEmailByMessageID(emails, loc[p].acct.id, m)
       IN \E err \in BOOLEAN :
             LET l == [loc[p] EXCEPT !.lookupErr = @ \/ err]
             IN IF SkipMessage(found /\ ~err, err)
                THEN Advance(p, l)
                ELSE /\ UNCHANGED settled
                     /\ IF loc[p].acct.provider = "gmail"
                        THEN Goto(p, "fe_message", l)
                        ELSE Goto(p, "fe_create", l)
    /\ UNCHANGED <<states, issued, accounts, emails, nextId, nextTok, mailbox,
                   now, consumed, twice, refreshLog, started, probe>>

\* ---- EmailService.parseGmailBody
\* base64.URLEncoding.DecodeString on the payloads used here: "QQ==" is "A",
\* "Qg==" is "B"; "QQ" lacks the padding and "!" is not in the alphabet.
Base64Decode(data) ==
    CASE data = "" -> [ok |-> TRUE, text |-> ""]
      [] data = "QQ==" -> [ok |-> TRUE, text |-> "A"]
      [] data = "Qg==" -> [ok |-> TRUE, text |-> "B"]
      [] OTHER -> [ok |-> FALSE, text |-> ""]

\* The bodies of a new models.Email.
NoBody == [ok |-> TRUE, body |-> "", html |-> ""]

RECURSIVE parseGmailBody(_, _)
RECURSIVE parseNested(_, _, _)

\* for _, p := range part.Parts { if err := s.parseGmailBody(p, email); err != nil { return err } }
parseNested(parts, i, email) ==
    IF i > Len(parts) THEN email
    ELSE LET r == parseGmailBody(parts[i], email)
         IN IF r.ok THEN parseNested(parts, i + 1, r) ELSE r

\* A text/plain part assigns email.Body, a text/html part email.HTMLBody;
\* then the nested parts are processed in order. A decoding error ends the walk.
parseGmailBody(part, email) ==
    LET d == Base64Decode(part.data)
    IN IF part.mime = "text/plain"
       THEN IF d.ok THEN parseNested(part.parts, 1, [email EXCEPT !.body = d.text])
            ELSE [email EXCEPT !.ok = FALSE]
       ELSE IF part.mime = "text/html"
       THEN IF d.ok THEN parseNested(part.parts, 1, [email EXCEPT !.html = d.text])
            ELSE [email EXCEPT !.ok = FALSE]
       ELSE parseNested(part.parts, 1, email)

\* The payloads Messages.Get can answer with: a text part whose body data
\* decodes, and one whose body data does not.
FetchedPayloads ==
    {[mime |-> "text/plain", data |-> "QQ==", parts |-> <<>>],
     [mime |-> "text/plain", data |-> "!", parts |-> <<>>]}

\* message, err := gmailService.Users.Messages.Get("me", msg.Id).Format("full").Do()
\* and email, err := s.parseGmailMessage(message): either error ends the pass.
FeMessage(p) ==
    /\ pc[p] = "fe_message"
    /\ LET m == Head(loc[p].todo)
       IN \/ Finish(p, "failed to get message", [loc[p] EXCEPT !.bad = {m}])
          \/ \E part \in FetchedPayloads :
                IF parseGmailBody(part, NoBody).ok
                THEN Goto(p, "fe_create", loc[p])
                ELSE Finish(p, "failed to parse message", [loc[p] EXCEPT !.bad = {m}])
    /\ UNCHANGED <<states, issued, accounts, emails, nextId, nextTok, mailbox,
                   now, consumed, twice, refreshLog, settled, started, probe>>

\* The document of a listed message: email.AccountID = account.ID, email.MessageID = msg.Id.
NewEmail(accountID, messageID) ==
    [id |-> 0, account_id |-> accountID, message_id |-> messageID, summary |-> "",
     entities |-> <<>>]

\* s.store.CreateEmail(ctx, email)
FeCreate(p) ==
    /\ pc[p] = "fe_create"
    /\ LET m == Head(loc[p].todo)
           doc == NewEmail(loc[p].acct.id, m)
       IN \/ /\ Finish(p, "failed to store message", [loc[p] EXCEPT !.bad = {m}])
             /\ UNCHANGED <<emails, nextId, settled>>
          \/ /\ EmailIndexViolated(emails, doc)
             /\ Finish(p, "failed to store message: duplicate key",
                       [loc[p] EXCEPT !.bad = {m}])
             /\ UNCHANGED <<emails, nextId, settled>>
          \/ /\ ~EmailIndexViolated(emails, doc)
             /\ nextId < MaxIds
             /\ nextId' = nextId + 1
             /\ emails' = CreateEmail(emails, doc, nextId + 1)
             /\ Advance(p, [loc[p] EXCEPT !.made = @ \cup {m}])
    /\ UNCHANGED <<states, issued, accounts, nextTok, mailbox, now, consumed, twice,
                   refreshLog, started, probe>>

\* ----------------------------- Handler.DeleteAccount / EmailService.DeleteAccount
\* The messages of the account are deleted, then the account.
DaEmails(p, id) ==
    /\ pc[p] = "idle"
    /\ started < MaxRequests
    /\ started' = started + 1
    /\ id \in {a.id : a \in accounts}
    /\ LET l == [loc[p] EXCEPT !.op = "delete", !.id = id]
       IN \/ /\ Finish(p, "failed to delete emails", l)
             /\ UNCHANGED <<emails, settled>>
          \/ /\ emails' = DeleteAccountEmails(emails, id)
             /\ settled' = {s \in settled : s.id # id}
             /\ Goto(p, "da_account", l)
    /\ UNCHANGED <<states, issued, accounts, nextId, nextTok, mailbox, now,
                   consumed, twice, refreshLog, probe>>

DaAccount(p) ==
    /\ pc[p] = "da_account"
    /\ \/ /\ Finish(p, "failed to delete account", loc[p])
          /\ UNCHANGED accounts
       \/ /\ accounts' = DeleteAccount(accounts, loc[p].id)
          /\ Finish(p, "ok", loc[p])
    /\ UNCHANGED <<states, issued, emails, nextId, nextTok, mailbox, now,
                   consumed, twice, refreshLog, settled, started, probe>>

\* -------------------------------------------------------- environment
\* Time passes.
Tick ==
    /\ now < MaxTime
    /\ now' = now + 1
    /\ UNCHANGED <<states, issued, accounts, emails, nextId, nextTok, mailbox,
                   pc, loc, consumed, twice, refreshLog, settled, started, probe>>

\* A message arrives in the mailbox of a linked account.
NewMail(email, m) ==
    /\ \E a \in accounts : a.email = email
    /\ m \notin mailbox[email]
    /\ mailbox' = [mailbox EXCEPT ![email] = @ \cup {m}]
    /\ UNCHANGED <<states, issued, accounts, emails, nextId, nextTok, now,
                   pc, loc, consumed, twice, refreshLog, settled, started, probe>>

\* ------------------------------- Handler.SummarizeEmail / LLMService.SummarizeEmail
\* Texts the generation endpoint may answer with.
Summaries == {"Greeting", "Reminder"}

\* email, err := s.store.GetEmail(ctx, emailID); "email not found" when nil.
SuGet(p, id) ==
    /\ pc[p] = "idle"
    /\ started < MaxRequests
    /\ started' = started + 1
    /\ LET l == [loc[p] EXCEPT !.op = "summarize", !.id = id]
       IN \/ Finish(p, "failed to get email", l)
          \/ IF GetEmail(emails, id) = NoEmail
             THEN Finish(p, "email not found", l)
             ELSE Goto(p, "su_call", [l EXCEPT !.mail = GetEmail(emails, id)])
    /\ UNCHANGED <<states, issued, accounts, emails, nextId, nextTok, mailbox,
                   now, consumed, twice, refreshLog, settled, probe>>

\* summary, err := s.callOllama(ctx, prompt)
SuCall(p) ==
    /\ pc[p] = "su_call"
    /\ \/ Finish(p, "failed to generate summary", [loc[p] EXCEPT !.called = TRUE])
       \/ \E t \in Summaries :
             Goto(p, "su_write", [loc[p] EXCEPT !.called = TRUE, !.text = t])
    /\ UNCHANGED <<states, issued, accounts, emails, nextId, nextTok, mailbox,
                   now, consumed, twice, refreshLog, settled, started, probe>>

\* email.Summary = summary; s.store.UpdateEmail(ctx, email); return summary
SuWrite(p) ==
    /\ pc[p] = "su_write"
    /\ \/ /\ Finish(p, "failed to update email", [loc[p] EXCEPT !.text = ""])
          /\ UNCHANGED emails
       \/ /\ emails' = UpdateEmail(emails, [loc[p].mail EXCEPT !.summary = loc[p].text])
          /\ Finish(p, "ok", [loc[p] EXCEPT !.wrote = TRUE])
    /\ UNCHANGED <<states, issued, accounts, nextId, nextTok, mailbox,
                   now, consumed, twice, refreshLog, settled, started, probe>>

\* ------------------------------- Handler.PerformNER / LLMService.PerformNER
\* Texts the generation endpoint may answer the entity prompt with.
Responses ==
    { "[]", "null", "[{\"text\":\"Ann\"}]", "[{\"text\":\"Ann\"},{\"text\":\"Bob\"}]",
      "", "Sure: []", "[{\"text\":\"Ann\"}", "[\"Ann\"]", "{\"text\":\"Ann\"}",
      "[{\"text\":\"Ann\"},]" }

ParseError == [ok |-> FALSE, entities |-> <<>>]

\* The position of the first double quote of s, 0 when it has none.
FirstQuote(s) ==
    IF \E i \in 1..Len(s) : SubSeq(s, i, i) = "\""
    THEN CHOOSE i \in 1..Len(s) :
            /\ SubSeq(s, i, i) = "\""
            /\ \A j \in 1..(i - 1) : SubSeq(s, j, j) # "\""
    ELSE 0

\* The elements of a JSON array in compact form, each an object with the
\* one member "text": {"text":"..."} separated by commas.
RECURSIVE ParseItems(_)
ParseItems(s) ==
    IF Len(s) < 9 \/ SubSeq(s, 1, 9) # "{\"text\":\"" THEN ParseError
    ELSE LET rest == SubSeq(s, 10, Len(s))
             q == FirstQuote(rest)
         IN IF q = 0 \/ q = Len(rest) \/ SubSeq(rest, q + 1, q + 1) # "}" THEN ParseError
            ELSE LET text == SubSeq(rest, 1, q - 1)
                     after == SubSeq(rest, q + 2, Len(rest))
                 IN IF after = "" THEN [ok |-> TRUE, entities |-> <<text>>]
                    ELSE IF SubSeq(after, 1, 1) # "," THEN ParseError
                    ELSE LET more == ParseItems(SubSeq(after, 2, Len(after)))
                         IN IF more.ok
                            THEN [ok |-> TRUE, entities |-> <<text>> \o more.entities]
                            ELSE ParseError

\* json.Unmarshal([]byte(response), &entities) for a response in compact
\* form: null gives a nil slice, an array of objects gives its entities, any
\* other text is an error.
ParseEntities(s) ==
    IF s = "null" \/ s = "[]" THEN [ok |-> TRUE, entities |-> <<>>]
    ELSE IF Len(s) < 2 \/ SubSeq(s, 1, 1) # "[" \/ SubSeq(s, Len(s), Len(s)) # "]" THEN ParseError
    ELSE ParseItems(SubSeq(s, 2, Len(s) - 1))

\* email, err := s.store.GetEmail(ctx, emailID); "email not found" when nil.
NerGet(p, id) ==
    /\ pc[p] = "idle"
    /\ started < MaxRequests
    /\ started' = started + 1
    /\ LET l == [loc[p] EXCEPT !.op = "ner", !.id = id]
       IN \/ Finish(p, "failed to get email", l)
          \/ IF GetEmail(emails, id) = NoEmail
             THEN Finish(p, "email not found", l)
             ELSE Goto(p, "ner_call", [l EXCEPT !.mail = GetEmail(emails, id)])
    /\ UNCHANGED <<states, issued, accounts, emails, nextId, nextTok, mailbox,
                   now, consumed, twice, refreshLog, settled, probe>>

IgnoreParseError(p, l) == Goto(p, "ner_write", l)

\* if err := json.Unmarshal(...); err != nil { return nil, "failed to parse NER response" }
AfterParseError(p, l) == Finish(p, "failed to parse NER response", l)

\* response, err := s.callOllama(ctx, prompt), then the response is parsed.
NerCall(p) ==
    /\ pc[p] = "ner_call"
    /\ \/ Finish(p, "failed to perform NER", [loc[p] EXCEPT !.called = TRUE])
       \/ \E t \in Responses :
             LET l == [loc[p] EXCEPT !.called = TRUE, !.text = t]
                 parsed == ParseEntities(t)
             IN IF parsed.ok
                THEN Goto(p, "ner_write", [l EXCEPT !.ents = parsed.entities])
                ELSE AfterParseError(p, l)
    /\ UNCHANGED <<states, issued, accounts, emails, nextId, nextTok, mailbox,
                   now, consumed, twice, refreshLog, settled, started, probe>>

\* email.Entities = entities; s.store.UpdateEmail(ctx, email); return entities
NerWrite(p) ==
    /\ pc[p] = "ner_write"
    /\ \/ /\ Finish(p, "failed to update email", [loc[p] EXCEPT !.ents = <<>>])
          /\ UNCHANGED emails
       \/ /\ emails' = UpdateEmail(emails, [loc[p].mail EXCEPT !.entities = loc[p].ents])
          /\ Finish(p, "ok", [loc[p] EXCEPT !.wrote = TRUE])
    /\ UNCHANGED <<states, issued, accounts, nextId, nextTok, mailbox,
                   now, consumed, twice, refreshLog, settled, started, probe>>

\* ---------------------------------------------------------------- Next
Next ==
    \/ \E p \in Procs, provider \in Providers, email \in Emails : GetAuthURL(p, provider, email)
    \/ \E p \in Procs, st \in 0..MaxStates : CbLookup(p, st)
    \/ \E p \in Procs : CbDelete(p)
    \/ \E p \in Procs : CbExchange(p)
    \/ \E p \in Procs : CbUserInfo(p)
    \/ \E p \in Procs : CbGet(p)
    \/ \E p \in Procs : CbWrite(p)
    \/ \E p \in Procs, id \in 0..MaxIds : FeGet(p, id)
    \/ \E p \in Procs : FeRefresh(p)
    \/ \E p \in Procs : FeUpdate(p)
    \/ \E p \in Procs : FeTokens(p)
    \/ \E p \in Procs : FeList(p)
    \/ \E p \in Procs : FeCheck(p)
    \/ \E p \in Procs : FeMessage(p)
    \/ \E p \in Procs : FeCreate(p)
    \/ \E p \in Procs, id \in 1..MaxIds : DaEmails(p, id)
    \/ \E p \in Procs : DaAccount(p)
    \/ \E p \in Procs : Return(p)
    \/ Tick
    \/ \E email \in Emails, m \in MsgIds : NewMail(email, m)

Spec == Init /\ [][Next]_vars

\* ------------------------------------------- re-authorization of a linked account
\* The service starts over a database that holds one linked account: the
\* accounts collection persists, the handshake-state map is in memory and
\* starts empty.
LinkedAccount ==
    [NoAccount EXCEPT !.id = 1, !.provider = "gmail", !.email = "a@gmail.com",
                      !.access = 1, !.refresh = 1, !.expiry = TokenTTL]

InitLinked ==
    /\ states = [s \in {} |-> ""]
    /\ issued = 0
    /\ accounts = {LinkedAccount}
    /\ emails = {}
    /\ nextId = 1
    /\ nextTok = 1
    /\ mailbox = [e \in Emails |-> {}]
    /\ now = 0
    /\ pc = [p \in Procs |-> "idle"]
    /\ loc = [p \in Procs |-> IdleLoc]
    /\ consumed = {}
    /\ twice = {}
    /\ refreshLog = {}
    /\ settled = {}
    /\ started = 0
    /\ probe = NoProbe

\* Handshakes and account deletions only.
NextReauth ==
    \/ \E p \in Procs, provider \in Providers, email \in Emails : GetAuthURL(p, provider, email)
    \/ \E p \in Procs, st \in 0..MaxStates : CbLookup(p, st)
    \/ \E p \in Procs : CbDelete(p)
    \/ \E p \in Procs : CbExchange(p)
    \/ \E p \in Procs : CbUserInfo(p)
    \/ \E p \in Procs : CbGet(p)
    \/ \E p \in Procs : CbWrite(p)
    \/ \E p \in Procs, id \in 1..MaxIds : DaEmails(p, id)
    \/ \E p \in Procs : DaAccount(p)
    \/ \E p \in Procs : Return(p)

SpecReauth == InitLinked /\ [][NextReauth]_vars

\* ------------------------------------------------ handshakes, with their history
\* No URL has been issued.
NoHandshake == [kind |-> "handshake", asked |-> [s \in {} |-> ""]]

InitHandshake ==
    /\ states = [s \in {} |-> ""]
    /\ issued = 0
    /\ accounts = {}
    /\ emails = {}
    /\ nextId = 0
    /\ nextTok = 0
    /\ mailbox = [e \in Emails |-> {}]
    /\ now = 0
    /\ pc = [p \in Procs |-> "idle"]
    /\ loc = [p \in Procs |-> IdleLoc]
    /\ consumed = {}
    /\ twice = {}
    /\ refreshLog = {}
    /\ settled = {}
    /\ started = 0
    /\ probe = NoHandshake

\* Handshakes only.
NextHandshake ==
    \/ \E p \in Procs, provider \in Providers, email \in Emails : GetAuthURL(p, provider, email)
    \/ \E p \in Procs, st \in 0..MaxStates : CbLookup(p, st)
    \/ \E p \in Procs : CbDelete(p)
    \/ \E p \in Procs : CbExchange(p)
    \/ \E p \in Procs : CbUserInfo(p)
    \/ \E p \in Procs : CbGet(p)
    \/ \E p \in Procs : CbWrite(p)
    \/ \E p \in Procs : Return(p)

SpecHandshake == InitHandshake /\ [][NextHandshake]_vars

\* A request that has been received runs to its end: the steps of a running
\* HandleCallback are taken. Whether a request arrives is up to the clients.
RequestSteps ==
    \E p \in Procs :
        CbDelete(p) \/ CbExchange(p) \/ CbUserInfo(p) \/ CbGet(p) \/ CbWrite(p) \/ Return(p)

FairHandshake == SpecHandshake /\ WF_vars(RequestSteps)

\* ------------------------------------------------ ingestion passes of a linked account
\* The service starts over a database that holds one linked account, of
\* either provider, with or without a refresh token, and with a token that
\* has expired or one that outlives the run.
FetchAccounts ==
    {[NoAccount EXCEPT !.id = 1, !.provider = pr,
                       !.email = IF pr = "gmail" THEN "a@gmail.com" ELSE "c@outlook.com",
                       !.access = 1, !.refresh = r, !.expiry = e] :
        pr \in Providers, r \in 0..1, e \in {0, MaxTime + 1}}

InitFetch ==
    /\ states = [s \in {} |-> ""]
    /\ issued = 0
    /\ accounts \in {{a} : a \in FetchAccounts}
    /\ emails = {}
    /\ nextId = 1
    /\ nextTok = 1
    /\ mailbox = [e \in Emails |-> {}]
    /\ now = 0
    /\ pc = [p \in Procs |-> "idle"]
    /\ loc = [p \in Procs |-> IdleLoc]
    /\ consumed = {}
    /\ twice = {}
    /\ refreshLog = {}
    /\ settled = {}
    /\ started = 0
    /\ probe = NoProbe

\* Ingestion passes over an empty mailbox, and the clock.
NextFetch ==
    \/ \E p \in Procs, id \in 0..MaxIds : FeGet(p, id)
    \/ \E p \in Procs : FeRefresh(p)
    \/ \E p \in Procs : FeUpdate(p)
    \/ \E p \in Procs : FeTokens(p)
    \/ \E p \in Procs : FeList(p)
    \/ \E p \in Procs : Return(p)
    \/ Tick

SpecFetch == InitFetch /\ [][NextFetch]_vars

\* ------------------------------------------------ summaries of a stored message
\* The service starts over a database that holds one linked account and one
\* message ingested for it.
StoredEmail == [id |-> 2, account_id |-> 1, message_id |-> "m1", summary |-> "", entities |-> <<>>]

InitMail ==
    /\ states = [s \in {} |-> ""]
    /\ issued = 0
    /\ accounts = {LinkedAccount}
    /\ emails = {StoredEmail}
    /\ nextId = 2
    /\ nextTok = 1
    /\ mailbox = [e \in Emails |-> IF e = LinkedAccount.email THEN {"m1"} ELSE {}]
    /\ now = 0
    /\ pc = [p \in Procs |-> "idle"]
    /\ loc = [p \in Procs |-> IdleLoc]
    /\ consumed = {}
    /\ twice = {}
    /\ refreshLog = {}
    /\ settled = {}
    /\ started = 0
    /\ probe = NoProbe

\* Summaries and account deletions only.
NextSummarize ==
    \/ \E p \in Procs, id \in 1..MaxIds : SuGet(p, id)
    \/ \E p \in Procs : SuCall(p)
    \/ \E p \in Procs : SuWrite(p)
    \/ \E p \in Procs, id \in 1..MaxIds : DaEmails(p, id)
    \/ \E p \in Procs : DaAccount(p)
    \/ \E p \in Procs : Return(p)

SpecSummarize == InitMail /\ [][NextSummarize]_vars

\* Summaries and entity extractions of stored and unknown messages.
NextAnalyze ==
    \/ \E p \in Procs, id \in 1..MaxIds : SuGet(p, id)
    \/ \E p \in Procs : SuCall(p)
    \/ \E p \in Procs : SuWrite(p)
    \/ \E p \in Procs, id \in 1..MaxIds : NerGet(p, id)
    \/ \E p \in Procs : NerCall(p)
    \/ \E p \in Procs : NerWrite(p)
    \/ \E p \in Procs : Return(p)

SpecAnalyze == InitMail /\ [][NextAnalyze]_vars

\* -------------------------------------------------- the two store variants
\* The lookups of the Store interface that return one record.
GetOps == {"GetAccount", "GetAccountByEmail", "GetEmail", "GetEmailByMessageID"}

NoAnswer == [value |-> "", err |-> ""]

\* MongoStore: mongo.ErrNoDocuments is turned into (nil, nil), every other
\* error is returned as it is.
MongoLookup(op, case) ==
    IF case = "absent" THEN [value |-> "nil", err |-> "nil"]
    ELSE [value |-> "nil", err |-> "storage"]

\* CosmosStore: GetAccount and GetEmail return the error of ReadItem (the
\* 404 response for a missing item), GetAccountByEmail and GetEmailByMessageID
\* return a new error when the query yields no item.
CosmosLookup(op, case) ==
    IF case = "failure" THEN [value |-> "nil", err |-> "storage"]
    ELSE IF op \in {"GetAccount", "GetEmail"} THEN [value |-> "nil", err |-> "response 404"]
    ELSE IF op = "GetAccountByEmail" THEN [value |-> "nil", err |-> "account not found"]
    ELSE [value |-> "nil", err |-> "email not found"]

\* The database answers a lookup with no matching record, or the call fails.
GetProbes ==
    {[kind |-> "get", op |-> op, case |-> c, mongo |-> NoAnswer, cosmos |-> NoAnswer] :
        op \in GetOps, c \in {"absent", "failure"}}

MongoGet ==
    /\ probe.kind = "get" /\ probe.mongo = NoAnswer
    /\ probe' = [probe EXCEPT !.mongo = MongoLookup(probe.op, probe.case)]
    /\ UNCHANGED <<states, issued, accounts, emails, nextId, nextTok, mailbox, now,
                   pc, loc, consumed, twice, refreshLog, settled, started>>

CosmosGet ==
    /\ probe.kind = "get" /\ probe.cosmos = NoAnswer
    /\ probe' = [probe EXCEPT !.cosmos = CosmosLookup(probe.op, probe.case)]
    /\ UNCHANGED <<states, issued, accounts, emails, nextId, nextTok, mailbox, now,
                   pc, loc, consumed, twice, refreshLog, settled, started>>

\* ---- ListEmails in the two variants
MaxPage == 2
MaxLimit == 2

\* Stored e-mail documents, with the field names of their bson / json tags.
\* The received timestamps are distinct, so that the descending order is
\* one order.
MailPool ==
    { [id |-> 1, account_id |-> 1, from |-> "Ann@x.io", to |-> <<"bob@x.io">>,
       subject |-> "Hello World", labels |-> {"INBOX"}, read |-> TRUE,
       starred |-> FALSE, received_at |-> 3],
      [id |-> 2, account_id |-> 1, from |-> "bob@x.io", to |-> <<"Ann@x.io", "cy@x.io">>,
       subject |-> "hello", labels |-> {"INBOX", "WORK"}, read |-> FALSE,
       starred |-> TRUE, received_at |-> 2],
      [id |-> 3, account_id |-> 2, from |-> "ann@x.io", to |-> <<"bob@x.io">>,
       subject |-> "Re: plan", labels |-> {}, read |-> FALSE,
       starred |-> FALSE, received_at |-> 1] }

\* models.EmailFilter: every field is a pointer, <<>> is nil and <<v>> points
\* to v.
NoFilter ==
    [AccountID |-> <<>>, From |-> <<>>, To |-> <<>>, Subject |-> <<>>, Label |-> <<>>,
     Read |-> <<>>, Starred |-> <<>>, StartDate |-> <<>>, EndDate |-> <<>>]

Filters ==
    {NoFilter}
    \cup {[NoFilter EXCEPT !.AccountID = <<a>>] : a \in 1..2}
    \cup {[NoFilter EXCEPT !.From = <<v>>] : v \in {"ann", "bob@x.io"}}
    \cup {[NoFilter EXCEPT !.To = <<v>>] : v \in {"ann", "bob@x.io"}}
    \cup {[NoFilter EXCEPT !.Subject = <<v>>] : v \in {"hello", "World"}}
    \cup {[NoFilter EXCEPT !.Label = <<"WORK">>]}
    \cup {[NoFilter EXCEPT !.Read = <<b>>] : b \in BOOLEAN}
    \cup {[NoFilter EXCEPT !.Starred = <<TRUE>>]}
    \cup {[NoFilter EXCEPT !.StartDate = <<2>>]}
    \cup {[NoFilter EXCEPT !.EndDate = <<2>>]}

LowerChar(c) ==
    CASE c = "A" -> "a" [] c = "H" -> "h" [] c = "R" -> "r" [] c = "W" -> "w"
      [] OTHER -> c

RECURSIVE Lower(_)
Lower(s) == IF s = "" THEN "" ELSE LowerChar(SubSeq(s, 1, 1)) \o Lower(SubSeq(s, 2, Len(s)))

Contains(s, sub) == \E i \in 1..(Len(s) - Len(sub) + 1) : SubSeq(s, i, i + Len(sub) - 1) = sub

\* {"$regex": v, "$options": "i"} for a v without regex metacharacters.
RegexI(s, v) == Contains(Lower(s), Lower(v))

\* The mongoFilter that MongoStore.ListEmails builds, applied to a document.
MongoMatches(d, f) ==
    /\ f.AccountID # <<>> => d.account_id = f.AccountID[1]
    /\ f.From # <<>> => RegexI(d.from, f.From[1])
    /\ f.To # <<>> => \E i \in 1..Len(d.to) : RegexI(d.to[i], f.To[1])
    /\ f.Subject # <<>> => RegexI(d.subject, f.Subject[1])
    /\ f.Label # <<>> => f.Label[1] \in d.labels
    /\ f.Read # <<>> => d.read = f.Read[1]
    /\ f.Starred # <<>> => d.starred = f.Starred[1]
    /\ f.StartDate # <<>> => d.received_at >= f.StartDate[1]
    /\ f.EndDate # <<>> => d.received_at <= f.EndDate[1]

\* Comparisons of the Cosmos query language: a property the document does
\* not have is undefined and makes the condition fail, and an array is never
\* equal to a string.
ArrayFields == {"to", "cc", "bcc", "labels", "entities"}
FieldEq(d, key, v) == key \in DOMAIN d /\ key \notin ArrayFields /\ d[key] = v
FieldContains(d, key, v) == key \in DOMAIN d /\ key \notin ArrayFields /\ Contains(d[key], v)
FieldGe(d, key, v) == key \in DOMAIN d /\ d[key] >= v
FieldLe(d, key, v) == key \in DOMAIN d /\ d[key] <= v

\* The WHERE clause that CosmosStore.ListEmails builds, applied to a document.
CosmosMatches(d, f) ==
    /\ f.AccountID # <<>> => FieldEq(d, "accountId", f.AccountID[1])
    /\ f.From # <<>> => FieldEq(d, "from", f.From[1])
    /\ f.To # <<>> => FieldEq(d, "to", f.To[1])
    /\ f.Subject # <<>> => FieldContains(d, "subject", f.Subject[1])
    /\ f.StartDate # <<>> => FieldGe(d, "date", f.StartDate[1])
    /\ f.EndDate # <<>> => FieldLe(d, "date", f.EndDate[1])

\* The WHERE clause of the count query of CosmosStore.ListEmails.
CosmosCounts(d, f) == f.AccountID # <<>> => FieldEq(d, "accountId", f.AccountID[1])

Newest(S) == CHOOSE d \in S : \A e \in S : e.received_at <= d.received_at

\* Sort {"received_at": -1}
RECURSIVE SortDesc(_)
SortDesc(S) == IF S = {} THEN <<>> ELSE <<Newest(S)>> \o SortDesc(S \ {Newest(S)})

\* Every order of the documents of S.
Orders(S) ==
    {o \in [1..Cardinality(S) -> S] : \A i, j \in 1..Cardinality(S) : i # j => o[i] # o[j]}

\* ORDER BY c.date DESC in a container with the default indexing policy
\* (IncludedPaths "/*"): a document without the property date is left out of
\* the result, the others come in descending order of it.
OrderByDateDesc(S) ==
    {o \in Orders({d \in S : "date" \in DOMAIN d}) :
        \A i, j \in 1..Len(o) : i < j => o[i].date >= o[j].date}

\* skip (page-1)*limit documents, return at most limit
Page(seq, page, limit) ==
    SubSeq(seq, (page - 1) * limit + 1,
           IF Len(seq) <= page * limit THEN Len(seq) ELSE page * limit)

Ids(seq) == [i \in 1..Len(seq) |-> seq[i].id]

NoListing == [done |-> FALSE, half |-> FALSE, emails |-> <<>>, total |-> 0, selected |-> {}]

\* total, err := s.db.Collection("emails").CountDocuments(ctx, mongoFilter)
MongoCountDocuments(coll, f) == Cardinality({d \in coll : MongoMatches(d, f)})

\* Find(ctx, mongoFilter, opts) with skip (page-1)*limit, the limit and the
\* sort on received_at descending; selected is what the filter of the call
\* matches.
MongoFind(coll, f, page, limit) ==
    LET sel == {d \in coll : MongoMatches(d, f)}
    IN  [emails |-> Ids(Page(SortDesc(sel), page, limit)), selected |-> {d.id : d \in sel}]

\* The page query; selected is what it yields over all pages.
CosmosPageQuery(coll, f, page, limit) ==
    {[emails |-> Ids(Page(o, page, limit)), selected |-> {o[i].id : i \in 1..Len(o)}] :
        o \in OrderByDateDesc({d \in coll : CosmosMatches(d, f)})}

\* The count query: SELECT VALUE COUNT(1) FROM c WHERE 1=1 and the account
\* condition.
CosmosCountQuery(coll, f) == Cardinality({d \in coll : CosmosCounts(d, f)})

\* What a request that runs between the two database calls of another can
\* make of the collection: CreateEmail stores one more e-mail of the pool,
\* DeleteAccountEmails removes the e-mails of an account.
OtherRequestWrites(coll, pool) ==
    {coll \cup {d} : d \in pool \ coll}
    \cup {{d \in coll : d.account_id # a} : a \in {d.account_id : d \in coll}}

\* coll is the content of the emails collection; written tells that another
\* request wrote it while a ListEmails was between its two calls.
ListProbes ==
    {[kind |-> "list", coll |-> c, filter |-> f, page |-> pg, limit |-> lm,
      mongo |-> NoListing, cosmos |-> NoListing, written |-> FALSE] :
        c \in SUBSET MailPool, f \in Filters, pg \in 1..MaxPage, lm \in 1..MaxLimit}

\* MongoStore.ListEmails, first round trip.
MongoListCount ==
    /\ probe.kind = "list" /\ ~probe.mongo.half /\ ~probe.mongo.done
    /\ probe' = [probe EXCEPT !.mongo.half = TRUE,
                              !.mongo.total = MongoCountDocuments(probe.coll, probe.filter)]
    /\ UNCHANGED <<states, issued, accounts, emails, nextId, nextTok, mailbox, now,
                   pc, loc, consumed, twice, refreshLog, settled, started>>

\* MongoStore.ListEmails, second round trip and return.
MongoListFind ==
    /\ probe.kind = "list" /\ probe.mongo.half /\ ~probe.mongo.done
    /\ LET r == MongoFind(probe.coll, probe.filter, probe.page, probe.limit)
       IN probe' = [probe EXCEPT !.mongo.done = TRUE, !.mongo.emails = r.emails,
                                 !.mongo.selected = r.selected]
    /\ UNCHANGED <<states, issued, accounts, emails, nextId, nextTok, mailbox, now,
                   pc, loc, consumed, twice, refreshLog, settled, started>>

\* CosmosStore.ListEmails, the pager of the page query.
CosmosListPage ==
    /\ probe.kind = "list" /\ ~probe.cosmos.half /\ ~probe.cosmos.done
    /\ \E r \in CosmosPageQuery(probe.coll, probe.filter, probe.page, probe.limit) :
          probe' = [probe EXCEPT !.cosmos.half = TRUE, !.cosmos.emails = r.emails,
                                 !.cosmos.selected = r.selected]
    /\ UNCHANGED <<states, issued, accounts, emails, nextId, nextTok, mailbox, now,
                   pc, loc, consumed, twice, refreshLog, settled, started>>

\* CosmosStore.ListEmails, the pager of the count query and return.
CosmosListCount ==
    /\ probe.kind = "list" /\ probe.cosmos.half /\ ~probe.cosmos.done
    /\ probe' = [probe EXCEPT !.cosmos.done = TRUE,
                              !.cosmos.total = CosmosCountQuery(probe.coll, probe.filter)]
    /\ UNCHANGED <<states, issued, accounts, emails, nextId, nextTok, mailbox, now,
                   pc, loc, consumed, twice, refreshLog, settled, started>>

\* ---- UpdateEmail in the two variants
\* The time at which the update is made.
UpdateTime == 1

\* A stored e-mail, with the fields UpdateEmail sets (summary, read,
\* updated_at) and fields it must keep; subject stands for the content fields.
StoredMessage ==
    [id |-> 1, account_id |-> 1, message_id |-> "m1", subject |-> "Hello World",
     summary |-> "", read |-> FALSE, created_at |-> 0, updated_at |-> 0]

\* The *models.Email a caller may pass: any value in any field.
PassedMessages ==
    [id : {1, 3}, account_id : {1, 2}, message_id : {"m1", "m9"},
     subject : {"Hello World", "Changed"}, summary : {"", "Greeting"},
     read : BOOLEAN, created_at : {0, 1}, updated_at : {0}]

\* UpdateOne({"_id": email.ID}, $set summary, entities, labels, read, starred,
\* updated_at); no document matched, no change.
MongoUpdateEmail(coll, email, t) ==
    {IF d.id = email.id
     THEN [d EXCEPT !.summary = email.summary, !.read = email.read, !.updated_at = t]
     ELSE d : d \in coll}

\* ReplaceItem(partition key email.AccountID, id email.ID, email): the item
\* with that id in that partition is replaced by the whole passed e-mail;
\* there is none, the call fails and nothing changes. The call also fails
\* when the container is partitioned on a property the documents lack.
CosmosUpdateEmail(coll, email, t) ==
    {coll} \cup
    {{IF d.id = email.id /\ d.account_id = email.account_id
      THEN [email EXCEPT !.updated_at = t]
      ELSE d : d \in coll}}

\* half and part belong to a call of two requests: the first is made, and
\* the partition it found.
NoUpdated == [done |-> FALSE, half |-> FALSE, part |-> 0, coll |-> {}]

UpdateProbes ==
    {[kind |-> "update", coll |-> c, email |-> e, mongo |-> NoUpdated, cosmos |-> NoUpdated] :
        c \in {{}, {StoredMessage}}, e \in PassedMessages}

MongoUpdate ==
    /\ probe.kind = "update" /\ ~probe.mongo.done
    /\ probe' = [probe EXCEPT !.mongo =
                    [NoUpdated EXCEPT !.done = TRUE,
                        !.coll = MongoUpdateEmail(probe.coll, probe.email, UpdateTime)]]
    /\ UNCHANGED <<states, issued, accounts, emails, nextId, nextTok, mailbox, now,
                   pc, loc, consumed, twice, refreshLog, settled, started>>

CosmosUpdate ==
    /\ probe.kind = "update" /\ ~probe.cosmos.done
    /\ \E c \in CosmosUpdateEmail(probe.coll, probe.email, UpdateTime) :
          probe' = [probe EXCEPT !.cosmos = [NoUpdated EXCEPT !.done = TRUE, !.coll = c]]
    /\ UNCHANGED <<states, issued, accounts, emails, nextId, nextTok, mailbox, now,
                   pc, loc, consumed, twice, refreshLog, settled, started>>

\* ---- DeleteEmail in the two variants
\* A stored e-mail of another account than the one its id could be taken for.
OtherMessage == [StoredMessage EXCEPT !.id = 2]

\* DeleteOne({"_id": id}); no document matched, no change and no error.
MongoDeleteEmail(coll, id) == {d \in coll : d.id # id}

\* ReadItem(partition key, id): the item with that id in that partition. The
\* partition of an e-mail is that of the account id it was created with.
CosmosReadEmail(coll, part, id) == {d \in coll : d.id = id /\ d.account_id = part}

\* DeleteItem(partition key, id): the item is removed, or the call fails
\* (there is no such item, or the request fails) and nothing changes.
CosmosDeleteItem(coll, part, id) ==
    {coll} \cup {coll \ {d} : d \in CosmosReadEmail(coll, part, id)}

\* coll is the content of the emails collection, and each variant's coll
\* the content its call left.
DeleteProbes ==
    {[kind |-> "delete", coll |-> c, id |-> i, mongo |-> NoUpdated, cosmos |-> NoUpdated,
      written |-> FALSE] :
        c \in {{}, {StoredMessage}, {OtherMessage}, {StoredMessage, OtherMessage}}, i \in 1..3}

MongoDelete ==
    /\ probe.kind = "delete" /\ ~probe.mongo.done
    /\ probe' = [probe EXCEPT !.mongo.done = TRUE,
                              !.mongo.coll = MongoDeleteEmail(probe.coll, probe.id)]
    /\ UNCHANGED <<states, issued, accounts, emails, nextId, nextTok, mailbox, now,
                   pc, loc, consumed, twice, refreshLog, settled, started>>

\* CosmosStore.DeleteEmail, first call: GetEmail(id) reads the item with that
\* id in the partition named by the id itself; when it fails DeleteEmail
\* returns the error and nothing changes.
CosmosDeleteRead ==
    /\ probe.kind = "delete" /\ ~probe.cosmos.half /\ ~probe.cosmos.done
    /\ \/ probe' = [probe EXCEPT !.cosmos.done = TRUE, !.cosmos.coll = probe.coll]
       \/ \E e \in CosmosReadEmail(probe.coll, probe.id, probe.id) :
             probe' = [probe EXCEPT !.cosmos.half = TRUE, !.cosmos.part = e.account_id]
    /\ UNCHANGED <<states, issued, accounts, emails, nextId, nextTok, mailbox, now,
                   pc, loc, consumed, twice, refreshLog, settled, started>>

\* CosmosStore.DeleteEmail, second call: DeleteItem in the partition of the
\* account of the e-mail that was read.
CosmosDelete ==
    /\ probe.kind = "delete" /\ probe.cosmos.half /\ ~probe.cosmos.done
    /\ \E c \in CosmosDeleteItem(probe.coll, probe.cosmos.part, probe.id) :
          probe' = [probe EXCEPT !.cosmos.done = TRUE, !.cosmos.coll = c]
    /\ UNCHANGED <<states, issued, accounts, emails, nextId, nextTok, mailbox, now,
                   pc, loc, consumed, twice, refreshLog, settled, started>>

\* Another request writes the emails collection while a ListEmails, or the
\* DeleteEmail of the Cosmos store, waits between its two calls. A write
\* before the first or after the second call is a call on another content.
OtherWrite ==
    /\ probe.kind \in {"list", "delete"} /\ ~probe.written
    /\ \/ probe.mongo.half /\ ~probe.mongo.done
       \/ probe.cosmos.half /\ ~probe.cosmos.done
    /\ \E c \in OtherRequestWrites(probe.coll, IF probe.kind = "list" THEN MailPool
                                                 ELSE {StoredMessage, OtherMessage}) :
          probe' = [probe EXCEPT !.coll = c, !.written = TRUE]
    /\ UNCHANGED <<states, issued, accounts, emails, nextId, nextTok, mailbox, now,
                   pc, loc, consumed, twice, refreshLog, settled, started>>

\* ---- the writers of CosmosStore
\* The number of store calls made on the containers below.
MaxCalls == 3

\* id.Hex(), the string an id is used as where a partition key is asked for.
Hex(id) == CASE id = 1 -> "1" [] id = 2 -> "2" [] id = 3 -> "3" [] id = 4 -> "4"
             [] OTHER -> "0"

\* The item CreateItem / ReplaceItem write for a models.Account: its JSON.
\* AccessToken, RefreshToken and TokenExpiry carry the tag json:"-" and are
\* not part of it.
CosmosAccountItem(a) == [a EXCEPT !.access = 0, !.refresh = 0, !.expiry = 0]

\* The accounts a caller may pass: with an id or with the zero id, and with
\* an e-mail that is an address or the hex string of an id.
PassedAccounts ==
    {[NoAccount EXCEPT !.id = i, !.provider = "gmail", !.email = e,
                       !.access = 1, !.refresh = 1, !.expiry = 1] :
        i \in 0..1, e \in {"a@gmail.com", Hex(1)}}

\* CreateItem(partition key account.Email, account): the zero id is replaced
\* by a new one; the container has no unique key, so the item is stored
\* unless an item with that id is in the partition of that e-mail, or the
\* request fails.
CosmosCreateAccount(coll, account, fresh, t) ==
    LET item == CosmosAccountItem([account EXCEPT
                    !.id = IF account.id = 0 THEN fresh ELSE account.id,
                    !.created_at = t, !.updated_at = t])
    IN  {coll} \cup {coll \cup {item} : x \in {a \in {item} :
                        ~\E b \in coll : b.id = item.id /\ b.email = item.email}}

\* ReplaceItem(partition key account.Email, account.ID.Hex(), account): the
\* item with that id in that partition becomes the passed account.
CosmosUpdateAccount(coll, account, t) ==
    {{IF a.id = account.id /\ a.email = account.email
      THEN CosmosAccountItem([account EXCEPT !.updated_at = t])
      ELSE a : a \in coll}}

\* CreateItem(partition key email.AccountID.Hex(), email).
CosmosCreateEmail(coll, email, fresh, t) ==
    LET item == [email EXCEPT !.id = IF email.id = 0 THEN fresh ELSE email.id,
                              !.created_at = t, !.updated_at = t]
    IN  {coll} \cup {coll \cup {item} : x \in {d \in {item} :
                        ~\E e \in coll : e.id = item.id /\ e.account_id = item.account_id}}

NoRun == [op |-> "", id |-> 0, part |-> "", todo |-> {}]

\* The two containers as NewCosmosStore creates them, the call that stands
\* between two of its requests, the ids NewObjectID has handed out and what
\* the call that returned last answered: its name and whether it returned
\* an error.
CosmosProbes ==
    {[kind |-> "cosmos", accounts |-> {}, emails |-> {}, run |-> NoRun, calls |-> 0,
      fresh |-> 1, last |-> [op |-> "", err |-> FALSE]]}

CallCosmosCreateAccount(account) ==
    /\ probe.kind = "cosmos" /\ probe.calls < MaxCalls
    /\ \E c \in CosmosCreateAccount(probe.accounts, account, probe.fresh + 1, UpdateTime) :
          probe' = [probe EXCEPT !.accounts = c, !.calls = @ + 1, !.fresh = @ + 1,
                                 !.last = [op |-> "CreateAccount", err |-> c = probe.accounts]]
    /\ UNCHANGED <<states, issued, accounts, emails, nextId, nextTok, mailbox, now,
                   pc, loc, consumed, twice, refreshLog, settled, started>>

CallCosmosUpdateAccount(account) ==
    /\ probe.kind = "cosmos" /\ probe.calls < MaxCalls
    /\ \/ probe' = [probe EXCEPT !.calls = @ + 1, !.last = [op |-> "UpdateAccount", err |-> TRUE]]
       \/ /\ \E a \in probe.accounts : a.id = account.id /\ a.email = account.email
          /\ \E c \in CosmosUpdateAccount(probe.accounts, account, UpdateTime) :
                probe' = [probe EXCEPT !.accounts = c, !.calls = @ + 1,
                                       !.last = [op |-> "UpdateAccount", err |-> FALSE]]
    /\ UNCHANGED <<states, issued, accounts, emails, nextId, nextTok, mailbox, now,
                   pc, loc, consumed, twice, refreshLog, settled, started>>

\* CosmosStore.DeleteAccount, first call: GetAccount(id), a ReadItem of the
\* item with that id in the partition named by id.Hex(); its error ends the
\* call, the account it read names the partition of the DeleteItem to come.
CallCosmosDeleteAccount(id) ==
    /\ probe.kind = "cosmos" /\ probe.calls < MaxCalls /\ probe.run = NoRun
    /\ \/ probe' = [probe EXCEPT !.calls = @ + 1, !.last = [op |-> "DeleteAccount", err |-> TRUE]]
       \/ \E a \in {b \in probe.accounts : b.id = id /\ b.email = Hex(id)} :
             probe' = [probe EXCEPT !.calls = @ + 1,
                          !.run = [NoRun EXCEPT !.op = "DeleteAccount", !.id = id,
                                                !.part = a.email]]
    /\ UNCHANGED <<states, issued, accounts, emails, nextId, nextTok, mailbox, now,
                   pc, loc, consumed, twice, refreshLog, settled, started>>

CallCosmosCreateEmail(email) ==
    /\ probe.kind = "cosmos" /\ probe.calls < MaxCalls
    /\ \E c \in CosmosCreateEmail(probe.emails, email, probe.fresh + 1, UpdateTime) :
          probe' = [probe EXCEPT !.emails = c, !.calls = @ + 1, !.fresh = @ + 1,
                                 !.last = [op |-> "CreateEmail", err |-> c = probe.emails]]
    /\ UNCHANGED <<states, issued, accounts, emails, nextId, nextTok, mailbox, now,
                   pc, loc, consumed, twice, refreshLog, settled, started>>

\* CosmosStore.DeleteAccountEmails, the query SELECT c.id FROM c WHERE
\* c.accountId = @accountId in the partition of the account, which yields the
\* ids of the items whose property accountId is the hex string of the id.
\* Its error ends the call, and
\* a result without items ends it with nil; otherwise the items are deleted
\* one by one.
CallCosmosDeleteAccountEmails(accountID) ==
    /\ probe.kind = "cosmos" /\ probe.calls < MaxCalls /\ probe.run = NoRun
    /\ LET ids == {d.id : d \in {e \in probe.emails :
                                    FieldEq(e, "accountId", Hex(accountID))}}
       IN \/ probe' = [probe EXCEPT !.calls = @ + 1,
                                    !.last = [op |-> "DeleteAccountEmails", err |-> TRUE]]
          \/ IF ids = {}
             THEN probe' = [probe EXCEPT !.calls = @ + 1,
                                         !.last = [op |-> "DeleteAccountEmails", err |-> FALSE]]
             ELSE probe' = [probe EXCEPT !.calls = @ + 1,
                               !.run = [NoRun EXCEPT !.op = "DeleteAccountEmails",
                                                     !.id = accountID,
                                                     !.part = Hex(accountID), !.todo = ids]]
    /\ UNCHANGED <<states, issued, accounts, emails, nextId, nextTok, mailbox, now,
                   pc, loc, consumed, twice, refreshLog, settled, started>>

\* The DeleteItem the running call makes next: that of DeleteAccount
\* (partition key account.Email, id.Hex(); the item is removed or the call
\* fails and nothing changes), or that of DeleteAccountEmails for one of the items its query yielded, whose
\* error ends the call.
CosmosRunDeleteItem ==
    /\ probe.kind = "cosmos" /\ probe.run # NoRun
    /\ IF probe.run.op = "DeleteAccount"
       THEN \E c \in {probe.accounts} \cup
                      {probe.accounts \ {a} : a \in {b \in probe.accounts :
                          b.id = probe.run.id /\ b.email = probe.run.part}} :
               probe' = [probe EXCEPT !.accounts = c, !.run = NoRun,
                                      !.last = [op |-> "DeleteAccount", err |-> c = probe.accounts]]
       ELSE \E i \in probe.run.todo :
               \/ probe' = [probe EXCEPT !.run = NoRun,
                                         !.last = [op |-> "DeleteAccountEmails", err |-> TRUE]]
               \/ \E d \in {e \in probe.emails : e.id = i /\ Hex(e.account_id) = probe.run.part} :
                     probe' = [probe EXCEPT
                                  !.emails = @ \ {d},
                                  !.run = IF probe.run.todo = {i} THEN NoRun
                                          ELSE [@ EXCEPT !.todo = @ \ {i}],
                                  !.last = IF probe.run.todo = {i}
                                           THEN [op |-> "DeleteAccountEmails", err |-> FALSE] ELSE @]
    /\ UNCHANGED <<states, issued, accounts, emails, nextId, nextTok, mailbox, now,
                   pc, loc, consumed, twice, refreshLog, settled, started>>

InitStores ==
    /\ states = [s \in {} |-> ""] /\ issued = 0 /\ accounts = {} /\ emails = {}
    /\ nextId = 0 /\ nextTok = 0 /\ mailbox = [e \in Emails |-> {}] /\ now = 0
    /\ pc = [p \in Procs |-> "idle"] /\ loc = [p \in Procs |-> IdleLoc]
    /\ consumed = {} /\ twice = {} /\ refreshLog = {} /\ settled = {} /\ started = 0
    /\ probe \in GetProbes \cup ListProbes \cup UpdateProbes \cup DeleteProbes \cup CosmosProbes

NextStores ==
    \/ MongoGet \/ CosmosGet
    \/ MongoListCount \/ MongoListFind \/ CosmosListPage \/ CosmosListCount
    \/ MongoUpdate \/ CosmosUpdate
    \/ MongoDelete \/ CosmosDeleteRead \/ CosmosDelete \/ OtherWrite
    \/ \E a \in PassedAccounts : CallCosmosCreateAccount(a)
    \/ \E a \in PassedAccounts : CallCosmosUpdateAccount(a)
    \/ \E id \in 1..2 : CallCosmosDeleteAccount(id)
    \/ \E i \in 0..1, a \in 1..2 :
          CallCosmosCreateEmail([StoredMessage EXCEPT !.id = i, !.account_id = a])
    \/ \E id \in 1..2 : CallCosmosDeleteAccountEmails(id)
    \/ CosmosRunDeleteItem

SpecStores == InitStores /\ [][NextStores]_vars

\* ------------------------------------------------ pure functions of the services
\* ---- the payloads parseGmailBody is applied to
\* gmail.MessagePart values: leaves with a body, and multipart nodes.
LeafParts ==
    [mime : {"text/plain", "text/html"}, data : {"QQ==", "Qg=="}, parts : {<<>>}]
    \cup {[mime |-> "image/png", data |-> "QQ==", parts |-> <<>>],
          [mime |-> "text/plain", data |-> "!", parts |-> <<>>]}

SeqsUpTo2(S) == {<<a>> : a \in S} \cup {<<a, b>> : a \in S, b \in S}

InnerParts == [mime : {"multipart/alternative"}, data : {""}, parts : SeqsUpTo2(LeafParts)]

PartTrees ==
    LeafParts \cup InnerParts
    \cup [mime : {"multipart/mixed"}, data : {""}, parts : SeqsUpTo2(LeafParts \cup InnerParts)]

BodyProbes == {[kind |-> "body", tree |-> t, done |-> FALSE, email |-> NoBody] : t \in PartTrees}

\* parseGmailMessage: s.parseGmailBody(msg.Payload, email)
ParseBody ==
    /\ probe.kind = "body" /\ ~probe.done
    /\ probe' = [probe EXCEPT !.done = TRUE, !.email = parseGmailBody(probe.tree, NoBody)]
    /\ UNCHANGED <<states, issued, accounts, emails, nextId, nextTok, mailbox, now,
                   pc, loc, consumed, twice, refreshLog, settled, started>>

\* ---- the provider derivation of HandleCallback
\* E-mail strings GetAuthURL may be given; it records any string.
Addresses == Emails \cup {"", "@gmail.com", "e@yahoo.co.uk", "someone@outlook.com", "f@live.com"}

DeriveProbes == {[kind |-> "derive", email |-> e, done |-> FALSE, provider |-> ""] : e \in Addresses}

\* The switch on the e-mail's domain in HandleCallback.
Derive ==
    /\ probe.kind = "derive" /\ ~probe.done
    /\ probe' = [probe EXCEPT !.done = TRUE, !.provider = DeriveProvider(probe.email)]
    /\ UNCHANGED <<states, issued, accounts, emails, nextId, nextTok, mailbox, now,
                   pc, loc, consumed, twice, refreshLog, settled, started>>

InitPure ==
    /\ states = [s \in {} |-> ""] /\ issued = 0 /\ accounts = {} /\ emails = {}
    /\ nextId = 0 /\ nextTok = 0 /\ mailbox = [e \in Emails |-> {}] /\ now = 0
    /\ pc = [p \in Procs |-> "idle"] /\ loc = [p \in Procs |-> IdleLoc]
    /\ consumed = {} /\ twice = {} /\ refreshLog = {} /\ settled = {} /\ started = 0
    /\ probe \in BodyProbes \cup DeriveProbes

NextPure == ParseBody \/ Derive

SpecPure == InitPure /\ [][NextPure]_vars

\* ============================================================== claims

Callback(p) == loc[p].op = "callback"
Fetch(p) == loc[p].op = "fetch"
Delete(p) == loc[p].op = "delete"
Returned(p, res) == pc[p] = "done" /\ loc[p].res = res

\* C1: single-use handshake state. A state value that one HandleCallback has
\* looked up and deleted is no longer in the map, and every HandleCallback that
\* looks it up afterwards returns "invalid state".
C1_SingleUseState ==
    /\ \A s \in consumed : ~StateKnown(states, s)
    /\ \A p \in Procs : loc[p].late => Returned(p, "invalid state")

\* A second callback with a spent state value has been answered.
C1_Witness ==
    \E p \in Procs : Callback(p) /\ loc[p].late /\ loc[p].st \in consumed
                     /\ Returned(p, "invalid state")

\* The callback has passed the state check and goes on to the code exchange.
PassedCheck(p) ==
    /\ Callback(p)
    /\ pc[p] \in {"cb_exchange", "cb_userinfo", "cb_get", "cb_write"}

\* C2: atomic redemption. Of the HandleCallback calls that run at the same time
\* with one state value, at most one passes the state check and goes on to
\* exchange the code.
C2_AtomicRedemption ==
    \A p, q \in Procs :
        (p # q /\ PassedCheck(p) /\ PassedCheck(q)) => loc[p].st # loc[q].st

\* C3: message uniqueness. No two stored messages have the same
\* (account id, provider message id) pair.
C3_MessageUnique ==
    \A e1, e2 \in emails :
        (e1.account_id = e2.account_id /\ e1.message_id = e2.message_id) => e1 = e2

\* Two Ingest calls for one account were both listed the message m1 alone; one
\* stored it, the other tried to store it too and was refused.
C3_Witness ==
    \E p, q \in Procs :
        /\ p # q /\ Fetch(p) /\ Fetch(q) /\ loc[p].id = loc[q].id
        /\ loc[p].listing = {"m1"}
        /\ Returned(p, "failed to store message: duplicate key")
        /\ "m1" \in loc[q].made
        /\ GetEmailByMessageID(emails, loc[p].id, "m1")

\* C4: Ingest stores exactly the new messages. An Ingest that returns nil has
\* created one row for each listed message that was not stored under the
\* account when the listing was taken, and no row for the others.
C4_IngestStoresNew ==
    \A p \in Procs :
        (Fetch(p) /\ Returned(p, "ok")) =>
            loc[p].made = loc[p].listing \ loc[p].pre

\* C5: Ingest is idempotent. An Ingest that returns nil for a listing for which
\* an earlier Ingest of the account has returned nil creates no row.
C5_IngestIdempotent ==
    \A p \in Procs :
        (Fetch(p) /\ Returned(p, "ok") /\ loc[p].second) => loc[p].made = {}

\* C6: account uniqueness. At most one account per (provider, email).
C6_AccountUnique ==
    \A a1, a2 \in accounts :
        (a1.provider = a2.provider /\ a1.email = a2.email) => a1 = a2

\* Two callbacks with different state values for one e-mail both found no
\* account; the second insert was refused.
C6_Witness ==
    \E p \in Procs : /\ Callback(p)
                     /\ Returned(p, "failed to create account: duplicate key")
                     /\ loc[p].st \notin twice

\* C7: refresh is serialized per account. A token of an account is presented to
\* the provider for refresh at most once.
C7_OneRefresh ==
    \A r1, r2 \in refreshLog : (r1.acct = r2.acct /\ r1.old = r2.old) => r1 = r2

\* C8: cascade on account deletion. Every stored message belongs to a stored
\* account, and when DeleteAccount(id) has returned nil no stored message has
\* that account id.
C8_Cascade ==
    /\ \A e \in emails : \E a \in accounts : a.id = e.account_id
    /\ \A p \in Procs :
          (Delete(p) /\ Returned(p, "ok")) => \A e \in emails : e.account_id # loc[p].id

\* C9: handshake round trip. When HandleCallback returns an account,
\* GetAccountByEmail for the recorded e-mail then returns an account with the
\* provider and e-mail of the returned one and with the tokens of the exchange.
\* Stated for the callbacks whose state value no other callback has redeemed.
C9_RoundTrip ==
    [][\A p \in Procs :
          (/\ pc[p] = "cb_write" /\ pc'[p] = "done" /\ loc'[p].res = "ok"
           /\ loc[p].st \notin twice) =>
              LET a == GetAccountByEmail(accounts', loc[p].email)
                  ret == loc'[p].acct
              IN /\ a.email = loc[p].email
                 /\ a.email = ret.email
                 /\ a.provider = ret.provider
                 /\ a.access = loc[p].tok.access
                 /\ a.refresh = loc[p].tok.refresh
                 /\ a.access # 0]_vars

\* C10: identity check before any write. A HandleCallback whose user-info
\* e-mail differs from the e-mail recorded with the state returns the mismatch
\* error and has written no account.
C10_MismatchWritesNothing ==
    \A p \in Procs :
        (Callback(p) /\ loc[p].differs) =>
            Returned(p, "email mismatch") /\ ~loc[p].wrote

\* A callback was refused for a mismatch while an account it could have
\* overwritten is stored.
C10_Witness ==
    \E p \in Procs : Callback(p) /\ loc[p].differs /\ Returned(p, "email mismatch")
                     /\ accounts # {}

\* C11: unknown state is rejected without effect. A HandleCallback called with
\* a state value that is not in the handshake-state map returns "invalid
\* state" in that very step: no token is issued by a provider, the accounts
\* collection and the handshake-state map are unchanged.
C11_UnknownStateNoEffect ==
    [][\A p \in Procs :
          (/\ pc[p] = "idle" /\ loc'[p].op = "callback"
           /\ loc'[p].st \notin DOMAIN states) =>
              /\ pc'[p] = "done" /\ loc'[p].res = "invalid state"
              /\ ~loc'[p].wrote
              /\ states' = states /\ accounts' = accounts /\ nextTok' = nextTok]_vars

\* A callback with a state value that was never issued has been refused while
\* the map holds an issued state.
C11_Witness ==
    \E p \in Procs : /\ Callback(p) /\ Returned(p, "invalid state")
                     /\ loc[p].st \notin consumed
                     /\ DOMAIN states # {}

\* C12: a failed refresh keeps the old tokens. An Ingest whose refresh call
\* the provider refused returns the refresh error, has listed and stored no
\* message and has not written the account; the step in which the refusal
\* arrives changes neither collection.
C12_FailedRefreshKeepsTokens ==
    [][\A p \in Procs :
          (Fetch(p) /\ loc'[p].failed) =>
              /\ pc'[p] = "done" /\ loc'[p].res = "failed to refresh token"
              /\ ~loc'[p].wrote /\ loc'[p].listing = {} /\ loc'[p].made = {}
              /\ (~loc[p].failed => accounts' = accounts /\ emails' = emails)]_vars

\* The refresh of a stored account's expired token was refused.
C12_Witness ==
    \E p \in Procs : /\ Fetch(p) /\ loc[p].failed
                     /\ Returned(p, "failed to refresh token")
                     /\ \E a \in accounts : a.id = loc[p].id /\ a.access # 0 /\ Expired(AccountToken(a))

\* C13: one bad message does not block the batch. When the fetch, parse or
\* store of one listed message has failed, the Ingest call has, by the time it
\* returns, persisted every other listed message that was not already stored.
C13_BadMessageSkipped ==
    \A p \in Procs :
        (Fetch(p) /\ pc[p] = "done" /\ loc[p].bad # {}) =>
            ((loc[p].listing \ loc[p].pre) \ loc[p].bad) \subseteq loc[p].made

\* C20: dedup lookup errors are not swallowed. An Ingest in which the lookup
\* GetEmailByMessageID of a listed message failed has returned an error in
\* that step: it neither skips the message nor goes on to create it.
C20_LookupErrorReported ==
    \A p \in Procs :
        (Fetch(p) /\ loc[p].lookupErr) => (pc[p] = "done" /\ loc[p].res # "ok")

Summarize(p) == loc[p].op = "summarize"

\* C14: the Summarize result is stored and returned. When SummarizeEmail
\* returns for a stored message, it returns the text of the LLM call and the
\* stored message then has that text as its summary; when no message has the
\* id, it returns "email not found" in that step, without an LLM call and
\* with the collection unchanged.
C14_SummaryStored ==
    [][\A p \in Procs :
          /\ (Summarize(p) /\ pc[p] = "su_write" /\ pc'[p] = "done" /\ loc'[p].res = "ok") =>
                /\ loc'[p].text = loc[p].text /\ loc[p].text \in Summaries
                /\ \A e \in emails' : e.id = loc[p].id => e.summary = loc[p].text
          /\ (pc[p] = "idle" /\ loc'[p].op = "summarize" /\ pc'[p] = "done"
              /\ loc'[p].res # "failed to get email") =>
                /\ GetEmail(emails, loc'[p].id) = NoEmail
                /\ loc'[p].res = "email not found"
                /\ ~loc'[p].called /\ emails' = emails
          /\ (pc[p] = "idle" /\ loc'[p].op = "summarize"
              /\ GetEmail(emails, loc'[p].id) = NoEmail) => pc'[p] = "done"]_vars

\* A summary was returned for the stored message and is stored with it; and a
\* Summarize for an id that no message has was refused.
C14_Witness ==
    /\ \E p \in Procs : /\ Summarize(p) /\ Returned(p, "ok")
                        /\ \E e \in emails : e.id = loc[p].id /\ e.summary = loc[p].text
                                             /\ e.summary \in Summaries
    /\ \E q \in Procs : Summarize(q) /\ Returned(q, "email not found") /\ ~loc[q].called

\* C15: in both store variants a lookup of a record that does not exist
\* returns an outcome different from that of a storage failure, and the two
\* variants return the same outcome for the same absent record.
C15_NotFoundUniform ==
    (probe.kind = "get" /\ probe.case = "absent"
        /\ probe.mongo # NoAnswer /\ probe.cosmos # NoAnswer)
    => /\ probe.mongo # MongoLookup(probe.op, "failure")
       /\ probe.cosmos # CosmosLookup(probe.op, "failure")
       /\ probe.mongo = probe.cosmos

\* The page and the total that the pagination contract asks for, given the
\* set of documents the store selected.
PageOf(coll, selected, page, limit) ==
    Ids(Page(SortDesc({d \in coll : d.id \in selected}), page, limit))

\* C16: for page >= 1 and limit >= 1 ListEmails returns positions
\* (page-1)*limit .. (page-1)*limit+limit-1 of the selected documents in
\* descending order of received_at, and a total equal to the number of
\* selected documents.
C16_Pagination ==
    probe.kind = "list" =>
        \A r \in {probe.mongo, probe.cosmos} :
            r.done => /\ r.emails = PageOf(MailPool, r.selected, probe.page, probe.limit)
                      /\ r.total = Cardinality(r.selected)

\* C17: for every store content and every filter the Mongo and the Cosmos
\* ListEmails select the same set of documents (the content being one that
\* no other request wrote during the calls).
C17_StoresFilterAlike ==
    (probe.kind = "list" /\ probe.mongo.done /\ probe.cosmos.done /\ ~probe.written)
    => probe.mongo.selected = probe.cosmos.selected

C19_LazyRefresh ==
    [][\A p \in Procs :
          /\ (pc[p] = "fe_refresh" /\ pc'[p] # pc[p] /\ TokenValid(loc[p].tok))
                => refreshLog' = refreshLog
          /\ (pc[p] = "fe_update" /\ pc'[p] # pc[p] /\ loc[p].lazy)
                => accounts' = accounts]_vars

\* C21: re-authentication changes only the tokens. The step in which a
\* HandleCallback that found an account for the e-mail writes it and succeeds
\* keeps the number of accounts and every account's id, provider, e-mail and
\* created-at, and leaves every other account as it was.
C21_ReauthOnlyTokens ==
    [][\A p \in Procs :
          (pc[p] = "cb_write" /\ loc[p].acct # NoAccount
              /\ pc'[p] = "done" /\ loc'[p].res = "ok")
          => /\ Cardinality(accounts') = Cardinality(accounts)
             /\ \A a \in accounts : \E b \in accounts' :
                    /\ b.id = a.id /\ b.provider = a.provider
                    /\ b.email = a.email /\ b.created_at = a.created_at
                    /\ (a.id # loc[p].acct.id => b = a)]_vars

\* A callback for the linked account's e-mail has succeeded and the stored
\* account carries the tokens of its exchange.
C21_Witness ==
    \E p \in Procs : /\ Callback(p) /\ Returned(p, "ok") /\ loc[p].wrote
                     /\ loc[p].acct.id = LinkedAccount.id
                     /\ \E a \in accounts : /\ a.id = LinkedAccount.id
                                             /\ a.access = loc[p].acct.access
                                             /\ a.access # LinkedAccount.access

\* C22: message updates touch only analysis and flag fields. In both store
\* variants UpdateEmail keeps the number of stored e-mails and each one's id,
\* account id, provider message id, subject and created-at, whatever the
\* passed e-mail carries in those fields.
C22_UpdateKeepsContent ==
    probe.kind = "update" =>
        \A r \in {probe.mongo, probe.cosmos} :
            r.done =>
                /\ Cardinality(r.coll) = Cardinality(probe.coll)
                /\ \A d \in probe.coll : \E e \in r.coll :
                       /\ e.id = d.id /\ e.account_id = d.account_id
                       /\ e.message_id = d.message_id /\ e.subject = d.subject
                       /\ e.created_at = d.created_at

Ner(p) == loc[p].op = "ner"

\* C23: a malformed entity response leaves the message unchanged. When the
\* LLM call of PerformNER fails or its response does not parse as a list of
\* entities, PerformNER returns an error in that step, has written nothing,
\* and the step leaves the stored messages as they were.
C23_MalformedResponseNoWrite ==
    [][\A p \in Procs :
          (Ner(p) /\ pc[p] = "ner_call" /\ pc'[p] # pc[p]) =>
              /\ emails' = emails
              /\ (pc'[p] = "ner_write" =>
                     /\ ParseEntities(loc'[p].text).ok
                     /\ loc'[p].ents = ParseEntities(loc'[p].text).entities)
              /\ (pc'[p] = "done" =>
                     /\ loc'[p].res \in {"failed to perform NER", "failed to parse NER response"}
                     /\ ~loc'[p].wrote)]_vars

\* PerformNER has returned the parse error for a response that is not a list
\* of entities, and the stored message has neither entities nor a summary.
C23_Witness ==
    \E p \in Procs : /\ Ner(p) /\ Returned(p, "failed to parse NER response")
                     /\ loc[p].text = "[\"Ann\"]"
                     /\ \E e \in emails : e.id = loc[p].id /\ e.entities = <<>> /\ e.summary = ""

\* C26: no lost update between the two analyses. When a SummarizeEmail and a
\* PerformNER of the same stored message have both returned successfully, the
\* stored message has the summary the one returned and the entities the
\* other returned.
C26_NoLostUpdate ==
    \A p, q \in Procs :
        (/\ Summarize(p) /\ Returned(p, "ok")
         /\ Ner(q) /\ Returned(q, "ok")
         /\ loc[p].id = loc[q].id)
        => \A e \in emails :
              e.id = loc[p].id => (e.summary = loc[p].text /\ e.entities = loc[q].ents)

\* The parts of a tree in the order of the depth-first walk.
RECURSIVE Walk(_)
RECURSIVE WalkAll(_, _)
WalkAll(parts, i) == IF i > Len(parts) THEN <<>> ELSE Walk(parts[i]) \o WalkAll(parts, i + 1)
Walk(part) == <<part>> \o WalkAll(part.parts, 1)

\* The content of the first part of the type met in the walk, "" when there is none.
FirstOf(tree, mime) ==
    LET w == SelectSeq(Walk(tree), LAMBDA q : q.mime = mime)
    IN IF w = <<>> THEN "" ELSE Base64Decode(w[1].data).text

\* C24: Gmail body extraction takes the first part of each type. For every
\* part tree that parses, the plain-text body is the content of the first
\* text/plain part of the depth-first walk and the HTML body that of the
\* first text/html part.
C24_FirstPartWins ==
    (probe.kind = "body" /\ probe.done /\ probe.email.ok)
    => /\ probe.email.body = FirstOf(probe.tree, "text/plain")
       /\ probe.email.html = FirstOf(probe.tree, "text/html")

EndsWith(s, suffix) ==
    Len(s) >= Len(suffix) /\ SubSeq(s, Len(s) - Len(suffix) + 1, Len(s)) = suffix

\* C28: the provider derivation is total and correct. For every e-mail
\* string it ends without an out-of-range slice, with gmail for an address
\* ending in @gmail.com, outlook for one ending in @outlook.com or
\* @hotmail.com, and the unsupported-domain error for every other.
C28_DerivationTotal ==
    (probe.kind = "derive" /\ probe.done)
    => probe.provider =
          IF EndsWith(probe.email, "@gmail.com") THEN "gmail"
          ELSE IF EndsWith(probe.email, "@outlook.com") \/ EndsWith(probe.email, "@hotmail.com")
               THEN "outlook"
          ELSE "unsupported"

\* C30: Ingest of an unknown account fails cleanly. A FetchEmails call for an
\* id that no stored account has ends with an error it returns, never by
\* dereferencing the missing account, and has made no provider call and no
\* write.
C30_UnknownAccountClean ==
    [][\A p \in Procs :
          (pc[p] = "idle" /\ loc'[p].op = "fetch"
              /\ GetAccount(accounts, loc'[p].id) = NoAccount)
          => /\ pc'[p] = "done" /\ loc'[p].res # "panic"
             /\ accounts' = accounts /\ emails' = emails /\ refreshLog' = refreshLog]_vars

\* C27: the provider is the same across the handshake. A HandleCallback that
\* redeemed a state exchanges the code with the provider whose authorization
\* URL GetAuthURL returned with that state, and the account it returns has
\* that provider.
C27_SameProvider ==
    \A p \in Procs :
        /\ (Callback(p) /\ pc[p] \in {"cb_exchange", "cb_userinfo", "cb_get", "cb_write"})
              => loc[p].provider = StateEmail(probe.asked, loc[p].st)
        /\ (Callback(p) /\ Returned(p, "ok"))
              => loc[p].acct.provider = StateEmail(probe.asked, loc[p].st)

CallbackFailures ==
    {"panic", "unsupported email domain", "failed to exchange code",
     "failed to get user email", "email mismatch", "failed to get account",
     "failed to create account", "failed to create account: duplicate key",
     "failed to update account"}

\* C29: a state is spent even when the callback fails later. A HandleCallback
\* that is past the deletion, or has failed after it, no longer finds its
\* state in the map; one that failed has written no account; and a callback
\* that presents a state already deleted returns "invalid state".
C29_SpentOnFailure ==
    \A p \in Procs :
        Callback(p) =>
            /\ (pc[p] \in {"cb_exchange", "cb_userinfo", "cb_get", "cb_write"}
                 \/ (pc[p] = "done" /\ loc[p].res \in CallbackFailures))
                  => ~StateKnown(states, loc[p].st)
            /\ (pc[p] = "done" /\ loc[p].res \in CallbackFailures) => ~loc[p].wrote
            /\ loc[p].late => Returned(p, "invalid state")

\* A callback failed at the code exchange, no account exists, and a retry
\* with the same state was refused.
C29_Witness ==
    \E p, q \in Procs :
        /\ Callback(p) /\ Returned(p, "failed to exchange code")
        /\ Callback(q) /\ Returned(q, "invalid state") /\ loc[q].late
        /\ loc[q].st = loc[p].st /\ loc[p].st # 0
        /\ accounts = {}

\* C25: unused handshake states expire. Every state value that GetAuthURL
\* has recorded in the map is eventually removed from it, redeemed or not.
C25_StatesExpire ==
    \A s \in 1..MaxStates : StateKnown(states, s) ~> ~StateKnown(states, s)

====
